---------------------------- MODULE Spec2Model ----------------------------
(***************************************************************************)
(* Pedurma footnote reconstruction (reconstruction.py).                    *)
(*                                                                         *)
(* A text is a sequence of characters; a character is a short string that  *)
(* names one code point:                                                   *)
(*   "tseg" U+0F0B   "shad" U+0F0D   "ter" U+0F14   "yig1" U+0F04          *)
(*   "yig2" U+0F05   "sp" U+0020     "nl" U+000A                           *)
(*   "vu" "vi" "ve" "vo"   the vowel signs U+0F74 U+0F72 U+0F7A U+0F7C     *)
(*   "nga" U+0F44    "sa" U+0F66     "ska" U+0F90 (subjoined ka)           *)
(*   "t0".."t9"  the Tibetan digits     "0".."9"  the ASCII digits         *)
(*   "c1".."c20" the circled numerals U+2460..U+2473, "c0" U+24EA,         *)
(*   "cx" a code point of U+2474..U+24E9 (inside the range, not a numeral) *)
(*   "copy" U+00A9   "reg" U+00AE    "ldq" U+201C    "bullet" U+2022       *)
(*   any other string ("k", "g", "<", ">", ",", ...) is that character.    *)
(***************************************************************************)
EXTENDS Integers, Sequences, FiniteSets, TLC

VARIABLES
  diffs,       \* filter_diffs: the diff list, mutated in place by the repairs
  result,      \* filter_diffs: the classified entries emitted so far
  i,           \* filter_diffs: the index of the loop
  left_diff,   \* filter_diffs: the local left_diff
  right_diff,  \* filter_diffs: the local right_diff; <<>> while unbound
  called,      \* filter_diffs: the repair the last pass called
  call,        \* the function under way and its arguments
  pg_num,      \* get_preview_page: the local pg_num
  ret,         \* the value returned
  exc,         \* the exception raised, "" if none
  pc           \* the position in the function under way

vars ==
  <<diffs, result, i, left_diff, right_diff, called, call, pg_num, ret, exc, pc>>

---------------------------------------------------------------------------
(* Character classes of the regular expressions.                           *)

TibDigits == {"t0", "t1", "t2", "t3", "t4", "t5", "t6", "t7", "t8", "t9"}

AsciiDigits == {"0", "1", "2", "3", "4", "5", "6", "7", "8", "9"}

CircledNumerals ==
  {"c0", "c1", "c2", "c3", "c4", "c5", "c6", "c7", "c8", "c9", "c10",
   "c11", "c12", "c13", "c14", "c15", "c16", "c17", "c18", "c19", "c20"}

\* [①-⓪]: the numerals and the other code points of the range
CircleRange == CircledNumerals \cup {"cx"}

\* \d of a str pattern: every Unicode decimal digit
IsDigit(c) == c \in AsciiDigits \cup TibDigits

\* the characters "." excludes, and the ones "\s" matches and "\S" excludes
Newlines == {"nl"}

Spaces == {"sp", "nl"}

---------------------------------------------------------------------------
(* Python's str and list primitives.                                       *)

Min(a, b) == IF a < b THEN a ELSE b

Max(a, b) == IF a > b THEN a ELSE b

\* s[n:]
DropFirst(s, n) == SubSeq(s, Min(n, Len(s)) + 1, Len(s))

\* s[-n:] for n > 0
TakeLast(s, n) == SubSeq(s, Max(Len(s) - n, 0) + 1, Len(s))

\* s[:-n]; s[:-0] is s[:0], the empty string
DropLast(s, n) == SubSeq(s, 1, IF n = 0 THEN 0 ELSE Max(Len(s) - n, 0))

\* s.startswith(sub) at 1-based position p
MatchAt(s, sub, p) ==
  /\ p + Len(sub) - 1 <= Len(s)
  /\ \A k \in 1..Len(sub) : s[p + k - 1] = sub[k]

\* s.find(sub) from position p on, 1-based; 0 when there is none
RECURSIVE FindFrom(_, _, _)
FindFrom(s, sub, p) ==
  IF p + Len(sub) - 1 > Len(s) THEN 0
  ELSE IF MatchAt(s, sub, p) THEN p
  ELSE FindFrom(s, sub, p + 1)

\* sub in s
Contains(s, sub) == FindFrom(s, sub, 1) # 0

\* s.replace(sub, repl, 1)
ReplaceFirst(s, sub, repl) ==
  LET p == FindFrom(s, sub, 1)
  IN  IF p = 0 THEN s
      ELSE SubSeq(s, 1, p - 1) \o repl \o SubSeq(s, p + Len(sub), Len(s))

\* s.replace(sub, repl) for a non-empty sub: every occurrence, left to right
RECURSIVE ReplaceAllFrom(_, _, _, _)
ReplaceAllFrom(s, sub, repl, p) ==
  LET q == FindFrom(s, sub, p)
  IN  IF q = 0 THEN SubSeq(s, p, Len(s))
      ELSE SubSeq(s, p, q - 1) \o repl
             \o ReplaceAllFrom(s, sub, repl, q + Len(sub))

ReplaceAll(s, sub, repl) == ReplaceAllFrom(s, sub, repl, 1)

\* the characters of s that are not in the set drop
RECURSIVE Without(_, _)
Without(s, drop) ==
  IF s = <<>> THEN <<>>
  ELSE IF Head(s) \in drop THEN Without(Tail(s), drop)
  ELSE <<Head(s)>> \o Without(Tail(s), drop)

\* the first position >= p of s whose character is in the set cls; 0 if none
RECURSIVE FirstIn(_, _, _)
FirstIn(s, cls, p) ==
  IF p > Len(s) THEN 0
  ELSE IF s[p] \in cls THEN p
  ELSE FirstIn(s, cls, p + 1)

\* the end of the run of cls characters that starts at p
RECURSIVE RunEnd(_, _, _)
RunEnd(s, cls, p) ==
  IF p < Len(s) /\ s[p + 1] \in cls THEN RunEnd(s, cls, p + 1) ELSE p

\* re.search("[cls]+", s)[0], or the empty text when there is no match
FirstRun(s, cls) ==
  LET p == FirstIn(s, cls, 1)
  IN  IF p = 0 THEN <<>> ELSE SubSeq(s, p, RunEnd(s, cls, p))

\* 0-based element access, as in the source
At(seq, k) == seq[k + 1]

---------------------------------------------------------------------------
(* The script classifiers and the marker extractors.                       *)

\* is_punct: membership of the WHOLE argument in the punctuation list
is_punct(char) ==
  char \in {<<"tseg">>, <<"shad">>, <<"ter">>, <<":">>,
            <<"shad", "sp", "shad">>, <<"yig1">>, <<"yig2">>}

\* isvowel, called with one character
isvowel(char) == char \in {"vu", "vi", "ve", "vo"}

\* is_midsyl
is_midsyl(left_diff_, right_diff_) ==
  IF left_diff_ # <<>>
  THEN LET right_diff_text == Without(right_diff_, {"nl"})
           left_diff_text == Without(left_diff_, {"nl"})
       IN  IF right_diff_text = <<>> \/ left_diff_text = <<>> THEN FALSE
           ELSE /\ ~is_punct(<<left_diff_text[Len(left_diff_text)]>>)
                /\ ~is_punct(<<right_diff_text[1]>>)
  ELSE FALSE

\* rm_noise: each pattern is searched in the ARGUMENT, and every occurrence
\* of the text it matched there is removed from the running result
rm_noise(diff) ==
  LET r1 == IF Contains(diff, <<"nl">>) THEN ReplaceAll(diff, <<"nl">>, <<>>)
            ELSE diff
      spaces == FirstRun(diff, {"sp"})
      r2 == IF spaces # <<>> THEN ReplaceAll(r1, spaces, <<>>) ELSE r1
      r3 == IF Contains(diff, <<"tseg">>)
            THEN ReplaceAll(r2, <<"tseg">>, <<>>) ELSE r2
  IN  r3

\* get_abs_marker: the first run of each of the three classes, concatenated
get_abs_marker(diff) ==
  FirstRun(diff, CircleRange) \o FirstRun(diff, TibDigits)
    \o FirstRun(diff, AsciiDigits)

\* The end of a lazy "X+?>" whose opener ends at position p: the first ">"
\* at p + 2 or later with no character of the set stop before it; 0 when
\* there is none. stop is {"nl"} for ".", {"sp", "nl"} for "\S".
RECURSIVE LazyCloseStop(_, _, _, _)
LazyCloseStop(s, p, q, stop) ==
  IF q > Len(s) \/ (q > p + 1 /\ s[q - 1] \in stop) THEN 0
  ELSE IF q >= p + 2 /\ s[q] = ">" THEN q
  ELSE LazyCloseStop(s, p, q + 1, stop)

LazyClose(s, p, q) == LazyCloseStop(s, p, q, {"nl"})

\* re.search("<m(.+?)>", s): <<start, end>> of the match, or <<0, 0>>
RECURSIVE SearchMTag(_, _)
SearchMTag(s, p) ==
  LET q == FindFrom(s, <<"<", "m">>, p)
  IN  IF q = 0 THEN <<0, 0>>
      ELSE LET e == LazyClose(s, q + 1, q + 2)
           IN  IF e # 0 THEN <<q, e>> ELSE SearchMTag(s, q + 1)

\* the line of s that holds position p: group 1 of "(.*#.*)"
LineStart(s, p) ==
  LET nls == {k \in 1..(p - 1) : s[k] = "nl"}
  IN  IF nls = {} THEN 1 ELSE (CHOOSE k \in nls : \A j \in nls : j <= k) + 1

LineEnd(s, p) ==
  LET q == FirstIn(s, {"nl"}, p) IN IF q = 0 THEN Len(s) ELSE q - 1

\* get_excep_marker: the later pattern that matches wins
get_excep_marker(diff) ==
  LET m == SearchMTag(diff, 1)
      h == FirstIn(diff, {"#"}, 1)
  IN  IF h # 0 THEN SubSeq(diff, LineStart(diff, h), LineEnd(diff, h))
      ELSE IF m[1] # 0 THEN SubSeq(diff, m[1] + 2, m[2] - 1)
      ELSE <<>>

\* get_marker
get_marker(diff) ==
  IF get_abs_marker(diff) # <<>> THEN get_abs_marker(diff)
  ELSE IF get_excep_marker(diff) # <<>> THEN get_excep_marker(diff)
  ELSE <<>>

\* str(vol_num): the model runs the volume 1
vol_str == <<"1">>

\* re.search(f"{vol_num}་?\D་?\d+", diff_text): the page-number pattern
is_page(diff_text) ==
  \E p \in 1..Len(diff_text) :
    /\ MatchAt(diff_text, vol_str, p)
    /\ \E t1 \in {0, 1}, t2 \in {0, 1} :
         LET a == p + Len(vol_str)      \* the optional first tseg
             b == a + t1                \* the non-digit
             c == b + 1                 \* the optional second tseg
             d == c + t2                \* the first digit
         IN  /\ d <= Len(diff_text)
             /\ t1 = 1 => diff_text[a] = "tseg"
             /\ ~IsDigit(diff_text[b])
             /\ t2 = 1 => diff_text[c] = "tseg"
             /\ IsDigit(diff_text[d])

---------------------------------------------------------------------------
(* The body diff classifier: filter_diffs and its repairs.                 *)
(* A repair returns the lists it mutates and the exception it raised, if   *)
(* any: [result, diffs, exc].                                              *)

Diff(type, text) == [type |-> type, text |-> text]

Entry(type, text, tag) == [type |-> type, text |-> text, tag |-> tag]

World(result_, diffs_, exc_) ==
  [result |-> result_, diffs |-> diffs_, exc |-> exc_]

\* double_mid_syl_marker: the backward scan from result[-1]; "IndexError"
\* when it leaves the list
RECURSIVE double_mid_syl_scan(_, _)
double_mid_syl_scan(result_, k) ==
  IF k < 1 THEN "IndexError"
  ELSE IF is_punct(result_[k].text) THEN "True"
  ELSE IF result_[k].tag = "marker" THEN "False"
  ELSE double_mid_syl_scan(result_, k - 1)

double_mid_syl_marker(result_) == double_mid_syl_scan(result_, Len(result_))

\* re.split("(tseg|shad)", text)[0]
first_syllable(text) ==
  LET p == FirstIn(text, {"tseg", "shad"}, 1)
  IN  IF p = 0 THEN text ELSE SubSeq(text, 1, p - 1)

\* text.split(tseg)[-1]
RECURSIVE last_syllable(_)
last_syllable(text) ==
  LET p == FirstIn(text, {"tseg"}, 1)
  IN  IF p = 0 THEN text ELSE last_syllable(DropFirst(text, p))

\* result[-1][1] = text
SetLastText(result_, text) ==
  [result_ EXCEPT ![Len(result_)].text = text]

\* diffs[i + 1][1] = text, an IndexError past the end of diffs
SetRight(w, i_, text) ==
  IF i_ + 1 >= Len(w.diffs) THEN World(w.result, w.diffs, "IndexError")
  ELSE World(w.result, [w.diffs EXCEPT ![i_ + 2].text = text], "")

\* result.append(marker), unless the statements before it raised
AppendMarker(w, marker) ==
  IF w.exc # "" THEN w ELSE World(Append(w.result, marker), w.diffs, "")

\* diffs[k][1], read only where the assignment to it does not raise
RightText(diffs_, k) == IF k < Len(diffs_) THEN At(diffs_, k).text ELSE <<>>

\* lines 238-242: the left neighbour ends in a space
mid_syl_space(result_, diffs_, left_text, i_, marker) ==
  SetRight(World(Append(SetLastText(result_,
                          DropLast(result_[Len(result_)].text, 2)), marker),
                 diffs_, ""),
           i_, TakeLast(left_text, 2) \o RightText(diffs_, i_ + 1))

\* mid_syl_vowel with the right neighbour left as it was: its first
\* syllable is copied onto result[-1], not moved
mid_syl_vowel_copy(result_, diffs_, i_, first_syl, marker) ==
  AppendMarker(World(SetLastText(result_,
                       result_[Len(result_)].text \o first_syl), diffs_, ""),
               marker)

\* lines 246-250 and 253-257: the first syllable of the right neighbour
\* moves onto result[-1]
mid_syl_vowel(result_, diffs_, i_, first_syl, marker) ==
  AppendMarker(
    SetRight(World(SetLastText(result_,
                     result_[Len(result_)].text \o first_syl), diffs_, ""),
             i_, DropFirst(RightText(diffs_, i_ + 1), Len(first_syl))),
    marker)

\* lines 260-263: the last syllable of the left neighbour moves to the right
mid_syl_lastsyl(result_, diffs_, i_, lastsyl, marker) ==
  SetRight(World(Append(SetLastText(result_,
                          DropLast(result_[Len(result_)].text, Len(lastsyl))),
                        marker),
                 diffs_, ""),
           i_, lastsyl \o RightText(diffs_, i_ + 1))

\* the body of handle_mid_syl, given the outcome of double_mid_syl_marker
mid_syl_repair(scan, result_, diffs_, left_diff_, i_, right_text, marker) ==
  IF scan = "IndexError" THEN World(result_, diffs_, "IndexError")
  ELSE IF scan = "False" THEN World(result_, diffs_, "")
  ELSE IF left_diff_.text[Len(left_diff_.text)] = "sp"
  THEN mid_syl_space(result_, diffs_, left_diff_.text, i_, marker)
  ELSE IF right_text[1] = "sp"
  THEN World(Append(result_, marker), diffs_, "")
  ELSE IF \/ isvowel(left_diff_.text[Len(left_diff_.text)])
          \/ isvowel(right_text[1])
  THEN mid_syl_vowel(result_, diffs_, i_, first_syllable(right_text),
                     marker)
  ELSE IF left_diff_.type # 1        \* left_diff[0] != (0 or 1)
  THEN mid_syl_lastsyl(result_, diffs_, i_, last_syllable(left_diff_.text),
                       marker)
  ELSE World(result_, diffs_, "")

\* handle_mid_syl
handle_mid_syl(result_, diffs_, left_diff_, i_, diff, right_text, marker_type) ==
  mid_syl_repair(double_mid_syl_marker(result_), result_, diffs_, left_diff_,
                 i_, right_text,
                 Entry(1, rm_noise(diff.text), marker_type))

\* tseg_shifter with the right neighbour left as it was: the separator is
\* copied, not moved
tseg_shifter_copy(result_, diffs_, left_diff_text, i_, right_diff_text) ==
  IF right_diff_text = <<>> THEN World(result_, diffs_, "IndexError")
  ELSE IF right_diff_text[1] = "tseg" /\ ~is_punct(left_diff_text)
  THEN IF result_ = <<>> THEN World(result_, diffs_, "IndexError")
       ELSE World(SetLastText(result_,
                    result_[Len(result_)].text \o <<"tseg">>), diffs_, "")
  ELSE World(result_, diffs_, "")

\* tseg_shifter
tseg_shifter(result_, diffs_, left_diff_text, i_, right_diff_text) ==
  IF right_diff_text = <<>> THEN World(result_, diffs_, "IndexError")
  ELSE IF right_diff_text[1] = "tseg" /\ ~is_punct(left_diff_text)
  THEN IF result_ = <<>> THEN World(result_, diffs_, "IndexError")
       ELSE SetRight(World(SetLastText(result_,
                             result_[Len(result_)].text \o <<"tseg">>),
                           diffs_, ""),
                     i_, DropFirst(RightText(diffs_, i_ + 1), 1))
  ELSE World(result_, diffs_, "")

\* double_marker_handler
double_marker_handler(result_) ==
  LET n == Len(result_)
  IN  IF n > 3
      THEN IF /\ result_[n].tag = "marker"
              /\ result_[n - 2].tag = "marker"
              /\ result_[n - 1].text \in {<<"nl">>, <<"sp">>, <<>>, <<"shad">>}
           THEN SubSeq(result_, 1, n - 1)
           ELSE result_
      ELSE result_

\* the exception syllable of lines 608 and 653
ske == <<"sa", "ska", "ve">>

\* The if/elif chain of lines 583-672 for an OnlySource entry that is not a
\* page: which repair the entry gets. "handle_mid_syl", "tseg_shifter" (the
\* shift, then the marker is appended), "continue" or "" (nothing is done).
source_chain(diff_, midsyl, marker, left, right) ==
  IF left.type = 0 /\ right.type = 0
  THEN IF midsyl /\ marker THEN "handle_mid_syl"
       ELSE IF marker THEN "tseg_shifter"
       ELSE IF diff_ # <<>>
       THEN IF \/ Contains(TakeLast(left.text, 3), <<"nga">>) /\ diff_ = ske
               \/ diff_ = <<"vu">>
            THEN "continue"
            ELSE IF midsyl THEN "handle_mid_syl"
            ELSE "tseg_shifter"
       ELSE ""
  ELSE IF right.type = 1
  THEN IF midsyl /\ marker THEN "handle_mid_syl"
       ELSE IF marker THEN "tseg_shifter"
       ELSE IF diff_ # <<>> /\ right.text \in {<<"nl">>, <<"sp">>, <<"tseg">>}
       THEN IF Contains(TakeLast(left.text, 2), <<"nga">>) /\ diff_ = ske
            THEN "continue"
            ELSE IF midsyl THEN "handle_mid_syl"
            ELSE "tseg_shifter"
       ELSE ""
  ELSE ""

source_branch(diff_text, left, right) ==
  source_chain(rm_noise(diff_text), is_midsyl(left.text, right.text),
               get_marker(diff_text) # <<>>, left, right)

\* the effect of the chain on result and diffs
source_effect(branch, result_, diffs_, left, i_, diff, right) ==
  IF branch = "handle_mid_syl"
  THEN handle_mid_syl(result_, diffs_, left, i_, diff, right.text, "marker")
  ELSE IF branch = "tseg_shifter"
  THEN AppendMarker(tseg_shifter(result_, diffs_, left.text, i_, right.text),
                    Entry(1, rm_noise(diff.text), "marker"))
  ELSE World(result_, diffs_, "")

\* The end of one pass: double_marker_handler (line 674) unless the pass
\* raised or took a continue; right_diff aliases diffs[i + 1], which the
\* repair has mutated.
source_done(branch, w, i_, left, right_) ==
  [diffs |-> w.diffs,
   result |-> IF w.exc = "" /\ branch # "continue"
              THEN double_marker_handler(w.result) ELSE w.result,
   left_diff |-> left,
   right_diff |-> IF i_ < Len(w.diffs) - 1 THEN <<At(w.diffs, i_ + 1)>>
                  ELSE right_,
   exc |-> w.exc,
   called |-> IF branch = "continue" THEN "" ELSE branch]

source_run(branch, diffs_, result_, i_, left, right_) ==
  source_done(branch,
              source_effect(branch, result_, diffs_, left, i_, At(diffs_, i_),
                            right_[1]),
              i_, left, right_)

\* lines 574-579: the neighbours; right_diff is <<>> while the local is
\* unbound, else the one entry it names
source_neighbours(diffs_, result_, i_, left, right_) ==
  IF right_ = <<>>
  THEN [diffs |-> diffs_, result |-> result_, left_diff |-> left,
        right_diff |-> right_, exc |-> "UnboundLocalError", called |-> ""]
  ELSE source_run(source_branch(At(diffs_, i_).text, left, right_[1]),
                  diffs_, result_, i_, left, right_)

\* One pass of the loop body for an OnlySource entry that is not a page
\* (lines 574-674)
source_step(diffs_, result_, i_, left_diff_, right_diff_) ==
  source_neighbours(diffs_, result_, i_,
                    IF i_ > 0 THEN At(diffs_, i_ - 1) ELSE left_diff_,
                    IF i_ < Len(diffs_) - 1 THEN <<At(diffs_, i_ + 1)>>
                    ELSE right_diff_)

---------------------------------------------------------------------------
(* The inputs of the classifier.  The diff engine's contract (spec.md, 3)  *)
(* is only that the texts concatenate to the two inputs, so every sequence *)
(* of entries is an input.                                                 *)

MaxDiffs == 4

\* the entries of the diff lists: Equal, OnlyTarget and OnlySource texts
DiffPool ==
  {Diff(0, t) : t \in {<<"tseg">>, <<"k">>, <<"k", "sp">>, <<"k", "vu">>,
                       <<"tseg", "k">>, <<"k", "tseg">>, <<"nl">>}}
    \cup {Diff(1, t) : t \in {<<"k">>, <<"sp">>, <<"vu", "k">>}}
    \cup {Diff(-1, t) : t \in {<<"c1">>, <<"k", "tseg">>, <<"1", "-", "2">>}}

DiffLists == UNION {[1..n -> DiffPool] : n \in 1..MaxDiffs}

Init ==
  /\ diffs \in DiffLists
  /\ result = <<>>
  /\ i = 0
  /\ left_diff = Diff(0, <<>>)
  /\ right_diff = <<>>
  /\ pc = "loop"
  /\ exc = ""
  /\ called = ""
  /\ call = [fn |-> "filter_diffs", diffs_list |-> diffs]
  /\ pg_num = 0
  /\ ret = <<>>

\* lines 561-565: an Equal or OnlyTarget entry is copied untagged
Copy ==
  /\ pc = "loop" /\ i < Len(diffs)
  /\ At(diffs, i).type \in {0, 1}
  /\ result' = Append(result, Entry(At(diffs, i).type, At(diffs, i).text, ""))
  /\ i' = i + 1
  /\ called' = ""
  /\ UNCHANGED <<diffs, left_diff, right_diff, pc, exc, call, pg_num, ret>>

\* lines 568-571: an OnlySource entry that matches the page-number pattern
Page ==
  /\ pc = "loop" /\ i < Len(diffs)
  /\ At(diffs, i).type = -1 /\ is_page(At(diffs, i).text)
  /\ result' = Append(result, Entry(1, At(diffs, i).text, "pedurma-page"))
  /\ i' = i + 1
  /\ called' = ""
  /\ UNCHANGED <<diffs, left_diff, right_diff, pc, exc, call, pg_num, ret>>

\* the state after one pass over an OnlySource entry
SourceTo(st) ==
  /\ diffs' = st.diffs
  /\ result' = st.result
  /\ left_diff' = st.left_diff
  /\ right_diff' = st.right_diff
  /\ exc' = st.exc
  /\ called' = st.called
  /\ pc' = IF st.exc = "" THEN "loop" ELSE "raised"
  /\ i' = IF st.exc = "" THEN i + 1 ELSE i

\* lines 572-674: any other OnlySource entry
Source ==
  /\ pc = "loop" /\ i < Len(diffs)
  /\ At(diffs, i).type = -1 /\ ~is_page(At(diffs, i).text)
  /\ SourceTo(source_step(diffs, result, i, left_diff, right_diff))
  /\ UNCHANGED <<call, pg_num, ret>>

\* lines 676-678: the loop is over, the classified sequence is returned
Return ==
  /\ pc = "loop" /\ i = Len(diffs)
  /\ pc' = "done"
  /\ ret' = result
  /\ called' = ""
  /\ UNCHANGED <<diffs, result, i, left_diff, right_diff, exc, call, pg_num>>

Next == Copy \/ Page \/ Source \/ Return

Spec == Init /\ [][Next]_vars

---------------------------------------------------------------------------
(* Properties of the body classifier.                                      *)

RECURSIVE Flat(_)
Flat(entries) ==
  IF entries = <<>> THEN <<>> ELSE Head(entries).text \o Flat(Tail(entries))

CountOf(c, text) == Cardinality({k \in 1..Len(text) : text[k] = c})

SameChars(a, b) ==
  /\ Len(a) = Len(b)
  /\ \A c \in {a[k] : k \in 1..Len(a)} : CountOf(c, a) = CountOf(c, b)

Repairs == {"handle_mid_syl", "tseg_shifter"}

\* this step is a pass over the OnlySource entry diffs[i] that ran a repair
\* to its end
RepairRan == pc = "loop" /\ pc' = "loop" /\ i' = i + 1 /\ called' \in Repairs

\* the entries emitted before the pass, as they are after it (the marker the
\* pass appends is not one of them)
Emitted == SubSeq(result', 1, Len(result))

\* the characters of the emitted entries and of the entries not yet
\* processed are the same multiset before and after the pass, and only
\* result[-1] and diffs[i + 1] have changed
RepairConserves ==
  /\ Len(diffs') = Len(diffs) /\ Len(result') >= Len(result)
  /\ SameChars(Flat(result) \o Flat(SubSeq(diffs, i + 2, Len(diffs))),
               Flat(Emitted) \o Flat(SubSeq(diffs', i + 2, Len(diffs))))
  /\ \A k \in 1..(Len(result) - 1) : result'[k] = result[k]
  /\ \A k \in 1..Len(diffs) : k # i + 2 => diffs'[k] = diffs[k]
  /\ \A k \in 1..Len(diffs) : diffs'[k].type = diffs[k].type

ShiftRan == pc = "loop" /\ pc' = "loop" /\ i' = i + 1 /\ called' = "tseg_shifter"

\* the text of the right neighbour as the pass found it: diffs[i + 1], or
\* the entry right_diff still names when diffs[i] is the last
RightBefore ==
  IF i < Len(diffs) - 1 THEN At(diffs, i + 1).text ELSE right_diff[1].text

\* the last character of the text is a punctuation character
EndsInPunct(text) == text # <<>> /\ is_punct(<<text[Len(text)]>>)

\* one separator has left the head of diffs[i + 1] for the end of result[-1]
ShiftMoved ==
  /\ i < Len(diffs) - 1 /\ result # <<>> /\ Len(result') >= Len(result)
  /\ Emitted = SetLastText(result, result[Len(result)].text \o <<"tseg">>)
  /\ diffs' = [diffs EXCEPT ![i + 2].text = Tail(At(diffs, i + 1).text)]

\* C14: tseg_shifter moves one separator from the head of the right
\* neighbour to the end of the last emitted entry when the right neighbour
\* begins with a separator and the left neighbour does not end in
\* punctuation, and moves nothing otherwise.
C14_ShiftPrecondition ==
  [][ShiftRan =>
       IF RightBefore # <<>> /\ RightBefore[1] = "tseg"
          /\ ~EndsInPunct(left_diff'.text)
       THEN ShiftMoved
       ELSE diffs' = diffs /\ Emitted = result]_vars

\* the texts double_marker_handler takes for a separator
SeparatorLike == {<<"nl">>, <<"sp">>, <<>>, <<"shad">>}

\* entries k, k + 1, k + 2 are a marker, a separator-like text and a marker
DoubleMarkerAt(entries, k) ==
  /\ entries[k].tag = "marker"
  /\ entries[k + 1].text \in SeparatorLike
  /\ entries[k + 2].tag = "marker"

\* C16: no sequence filter_diffs returns holds three consecutive entries
\* [marker, separator-like text, marker].
C16_NoDoubleMarker ==
  pc = "done" => \A k \in 1..(Len(ret) - 2) : ~DoubleMarkerAt(ret, k)

\* the texts, in order, of the entries whose field f has a value in vs
RECURSIVE TextWhere(_, _, _)
TextWhere(entries, f, vs) ==
  IF entries = <<>> THEN <<>>
  ELSE (IF Head(entries)[f] \in vs THEN Head(entries).text ELSE <<>>)
         \o TextWhere(Tail(entries), f, vs)

SourcesApart(entries) ==
  \A k \in 1..(Len(entries) - 1) :
    entries[k].type # -1 \/ entries[k + 1].type # -1

C9_NeverRaises == pc # "raised"

----------------------------------------------------------------------------
(* The numerals of a footnote marker.                                      *)

\* Python's None
None == <<"None">>

\* bool(value) of a str or None
Truthy(value) == value # <<>> /\ value # None

\* the table circle_num; a glyph of the range with no entry gets None
circle_num(c) ==
  IF c \in {"c10", "c11", "c12", "c13", "c14", "c15", "c16", "c17", "c18", "c19"}
  THEN <<"1", CHOOSE d \in AsciiDigits : c = "c1" \o d>>
  ELSE IF c = "c20" THEN <<"2", "0">>
  ELSE IF c \in CircledNumerals
  THEN <<CHOOSE d \in AsciiDigits : c = "c" \o d>>
  ELSE None

is_circle_number(footnotes_marker) ==
  LET number == FirstIn(footnotes_marker, CircleRange, 1)
  IN IF number = 0 THEN <<>> ELSE circle_num(footnotes_marker[number])

\* the table tib_num
tib_num(c) == CHOOSE d \in AsciiDigits : c = "t" \o d

\* re.search(r"\d+\S+(\d+)", s): a digit, at least one character that is
\* not white space, a digit
digit_gap_digit(s) ==
  \E a \in 1..Len(s), b \in 1..Len(s) :
    /\ b >= a + 2
    /\ IsDigit(s[a]) /\ IsDigit(s[b])
    /\ \A k \in (a + 1)..(b - 1) : s[k] \notin Spaces

\* the loop over re.finditer(r"\d", footnotes_marker)
RECURSIVE translate_digits(_, _)
translate_digits(s, k) ==
  IF k > Len(s) THEN <<>>
  ELSE (IF s[k] \in TibDigits THEN <<tib_num(s[k])>>
        ELSE IF IsDigit(s[k]) THEN <<s[k]>>
        ELSE <<>>) \o translate_digits(s, k + 1)

translate_tib_number(footnotes_marker) ==
  IF digit_gap_digit(footnotes_marker) THEN <<>>
  ELSE translate_digits(footnotes_marker, 1)

get_value(footnotes_marker) ==
  IF Truthy(is_circle_number(footnotes_marker))
  THEN is_circle_number(footnotes_marker)
  ELSE IF Truthy(translate_tib_number(footnotes_marker))
  THEN translate_tib_number(footnotes_marker)
  ELSE <<>>

MaxMarkerLen == 3

Markers ==
  UNION {[1..n -> {"t1", "t2", "7", "k", "sp", "c3", "c12", "cx"}] :
           n \in 1..MaxMarkerLen}

\* the variables of filter_diffs, at rest while another function runs
Idle ==
  /\ diffs = <<>> /\ result = <<>> /\ i = 0
  /\ left_diff = Diff(0, <<>>) /\ right_diff = <<>> /\ called = ""

IdleStill == UNCHANGED <<diffs, result, i, left_diff, right_diff, called>>

InitNum ==
  /\ Idle
  /\ \E fn \in {"is_circle_number", "translate_tib_number", "get_value"},
        m \in Markers :
       call = [fn |-> fn, footnotes_marker |-> m]
  /\ pg_num = 0 /\ ret = <<>> /\ exc = "" /\ pc = "call"

IsCircleNumber ==
  /\ pc = "call" /\ call.fn = "is_circle_number"
  /\ ret' = is_circle_number(call.footnotes_marker)
  /\ pc' = "returned"
  /\ IdleStill /\ UNCHANGED <<call, pg_num, exc>>

TranslateTibNumber ==
  /\ pc = "call" /\ call.fn = "translate_tib_number"
  /\ ret' = translate_tib_number(call.footnotes_marker)
  /\ pc' = "returned"
  /\ IdleStill /\ UNCHANGED <<call, pg_num, exc>>

GetValue ==
  /\ pc = "call" /\ call.fn = "get_value"
  /\ ret' = get_value(call.footnotes_marker)
  /\ pc' = "returned"
  /\ IdleStill /\ UNCHANGED <<call, pg_num, exc>>

NextNum == IsCircleNumber \/ TranslateTibNumber \/ GetValue

SpecNum == InitNum /\ [][NextNum]_vars

\* C10: translate_tib_number turns a marker that is a run of Tibetan digits,
\* of any length from 1 up, into the decimal digits of its glyphs, in order;
\* in particular the result is not empty.
C10_TibetanRun ==
  (/\ pc = "returned" /\ call.fn = "translate_tib_number"
   /\ \A k \in 1..Len(call.footnotes_marker) :
        call.footnotes_marker[k] \in TibDigits)
  => ret = [k \in 1..Len(call.footnotes_marker) |->
              tib_num(call.footnotes_marker[k])]

----------------------------------------------------------------------------
(* Tokens: the matches of "<.+?>", "<p\S+?>" and "<r.+?>".                 *)

TagOpen == <<"<">>

PageOpen == <<"<", "p">>

RefOpen == <<"<", "r">>

\* re.finditer from position p on: the matches <<first, last>> of the
\* opener, one or more characters outside stop (as few as possible), ">";
\* e is the end of the match at p, 0 for none
RECURSIVE FindAllAt(_, _, _, _, _)
FindAllAt(s, p, open, stop, e) ==
  IF p > Len(s) THEN <<>>
  ELSE IF e # 0
  THEN <<<<p, e>>>> \o
       FindAllAt(s, e + 1, open, stop,
                 IF MatchAt(s, open, e + 1)
                 THEN LazyCloseStop(s, e + Len(open), e + Len(open) + 1, stop)
                 ELSE 0)
  ELSE FindAllAt(s, p + 1, open, stop,
                 IF MatchAt(s, open, p + 1)
                 THEN LazyCloseStop(s, p + Len(open), p + Len(open) + 1, stop)
                 ELSE 0)

FindAll(s, open, stop) ==
  FindAllAt(s, 1, open, stop,
            IF MatchAt(s, open, 1)
            THEN LazyCloseStop(s, Len(open), Len(open) + 1, stop) ELSE 0)

\* re.findall: the texts of the matches
Texts(s, ms) == [k \in 1..Len(ms) |-> SubSeq(s, ms[k][1], ms[k][2])]

\* re.split: the texts around the matches, one more than the matches
Split(s, ms) ==
  [k \in 1..(Len(ms) + 1) |->
     SubSeq(s, IF k = 1 THEN 1 ELSE ms[k - 1][2] + 1,
               IF k > Len(ms) THEN Len(s) ELSE ms[k][1] - 1)]

Digits == <<"0", "1", "2", "3", "4", "5", "6", "7", "8", "9">>

\* str(n) of a natural number
RECURSIVE IntToStr(_)
IntToStr(n) ==
  IF n < 10 THEN <<Digits[n + 1]>>
  ELSE IntToStr(n \div 10) \o <<Digits[(n % 10) + 1]>>

\* f"<{i},{marker[0][1:-1]}>"
numbered(k, token) ==
  <<"<">> \o IntToStr(k) \o <<",">> \o SubSeq(token, 2, Len(token))

\* The numbering loop: the k-th match of the page as it was is replaced, at
\* its first occurrence in the page as it is now, by its numbered form.
RECURSIVE number_markers(_, _, _)
number_markers(page, markers, k) ==
  IF k > Len(markers) THEN page
  ELSE number_markers(ReplaceFirst(page, markers[k], numbered(k, markers[k])),
                      markers, k + 1)

number_page(page) ==
  number_markers(page, Texts(page, FindAll(page, TagOpen, Newlines)), 1)

RECURSIVE join_pages(_, _, _)
join_pages(pages, page_anns, k) ==
  IF k > Len(pages) THEN <<>>
  ELSE number_page(pages[k])
         \o (IF k <= Len(page_anns) THEN page_anns[k] ELSE <<>>)
         \o join_pages(pages, page_anns, k + 1)

reformatting_body_with(text, ms) ==
  join_pages(Split(text, ms), Texts(text, ms), 1)

reformatting_body(text) ==
  reformatting_body_with(text, FindAll(text, PageOpen, Spaces))

MaxBodyPieces == 4

BodyPieces ==
  {<<"k">>, <<"<", "c1", ">">>, <<"<", "1", ",", "c1", ">">>,
   <<"<", "p", "1", "-", "2", ">">>}

RECURSIVE Concat(_)
Concat(pieces) ==
  IF pieces = <<>> THEN <<>> ELSE Head(pieces) \o Concat(Tail(pieces))

\* the texts made of 1 to n of the pieces
TextsOf(pieces, n) ==
  {Concat(ps) : ps \in UNION {[1..m -> pieces] : m \in 1..n}}

InitBody ==
  /\ Idle
  /\ \E text \in TextsOf(BodyPieces, MaxBodyPieces) :
       call = [fn |-> "reformatting_body", text |-> text]
  /\ pg_num = 0 /\ ret = <<>> /\ exc = "" /\ pc = "call"

ReformattingBody ==
  /\ pc = "call" /\ call.fn = "reformatting_body"
  /\ ret' = reformatting_body(call.text)
  /\ pc' = "returned"
  /\ IdleStill /\ UNCHANGED <<call, pg_num, exc>>

NextBody == ReformattingBody

SpecBody == InitBody /\ [][NextBody]_vars

\* the <...> tokens of a page segment
TokensOf(segment) == Texts(segment, FindAll(segment, TagOpen, Newlines))

\* the page segments of a body text
SegmentsOf(text) == Split(text, FindAll(text, PageOpen, Spaces))

\* the tokens of the output segment are n, and the k-th carries the index k
NumberedOneToN(out_segment, n) ==
  /\ Len(TokensOf(out_segment)) = n
  /\ \A k \in 1..n :
       MatchAt(TokensOf(out_segment)[k],
               <<"<">> \o IntToStr(k) \o <<",">>, 1)

\* C2: in the output of reformatting_body every page segment has as many
\* <...> tokens as the same segment of the input, and they carry the indices
\* 1..n in encounter order.
C2_NumberedPerPage ==
  (pc = "returned" /\ call.fn = "reformatting_body")
  => /\ Len(SegmentsOf(ret)) = Len(SegmentsOf(call.text))
     /\ \A j \in 1..Len(SegmentsOf(call.text)) :
          NumberedOneToN(SegmentsOf(ret)[j],
                         Len(TokensOf(SegmentsOf(call.text)[j])))

----------------------------------------------------------------------------
(* merge_footnotes_per_page                                                *)

\* s.split(sep) for a one-character sep: the pieces around the separators
RECURSIVE SplitOn(_, _)
SplitOn(s, sep) ==
  IF FindFrom(s, <<sep>>, 1) = 0 THEN <<s>>
  ELSE <<SubSeq(s, 1, FindFrom(s, <<sep>>, 1) - 1)>>
         \o SplitOn(SubSeq(s, FindFrom(s, <<sep>>, 1) + 1, Len(s)), sep)

\* re.search("<p.+>", token)
is_page_token(token) ==
  \E q \in 1..Len(token), e \in 1..Len(token) :
    /\ MatchAt(token, PageOpen, q)
    /\ e >= q + 3 /\ token[e] = ">"
    /\ \A k \in (q + 2)..(e - 1) : token[k] \notin Newlines

Repl(repl1, repl2, exc_) == [repl1 |-> repl1, repl2 |-> repl2, exc |-> exc_]

\* a page token paired with a note and replaced by it, as a marker is
page_repl_note(token, footnotes_parts) ==
  Repl(token,
       <<"<">> \o (IF Len(footnotes_parts) >= 2 THEN footnotes_parts[2]
                   ELSE <<>>) \o <<">">>,
       "")

\* lines 802-803: a page token is replaced by itself
page_repl(token, footnotes_parts) == Repl(token, token, "")

\* lines 805-820: the replacements of a marker token, from
\* marker[0][1:-1].split(","), foot_note.split(">") and
\* footnotes_parts[0].split(",")
marker_repl(marker_parts, footnotes_parts, head_parts) ==
  IF Len(marker_parts) < 2 THEN Repl(<<>>, <<>>, "IndexError")
  ELSE Repl(<<"<">> \o marker_parts[1] \o <<",">> \o marker_parts[2]
              \o <<";">> \o DropFirst(head_parts[1], 1) \o <<",">>
              \o (IF Len(head_parts) >= 2 THEN head_parts[2] ELSE <<>>)
              \o <<",">>
              \o (IF Len(footnotes_parts) >= 2 THEN footnotes_parts[2]
                  ELSE <<>>)
              \o <<">">>,
            <<"<">> \o (IF Len(footnotes_parts) >= 2 THEN footnotes_parts[2]
                        ELSE <<>>) \o <<">">>,
            "")

merge_repl(token, foot_note) ==
  IF is_page_token(token) THEN page_repl(token, SplitOn(foot_note, ">"))
  ELSE marker_repl(SplitOn(SubSeq(token, 2, Len(token) - 1), ","),
                   SplitOn(foot_note, ">"),
                   SplitOn(SplitOn(foot_note, ">")[1], ","))

\* the loop of lines 800-822 from the k-th pair on; r is the replacement
\* of the k-th pair
RECURSIVE merge_from(_, _, _, _, _, _)
merge_from(with_marker, without_marker, markers, foot_notes, k, r) ==
  IF k > Min(Len(markers), Len(foot_notes))
  THEN [with |-> with_marker, without |-> without_marker, exc |-> ""]
  ELSE IF r.exc # ""
  THEN [with |-> with_marker, without |-> without_marker, exc |-> r.exc]
  ELSE merge_from(ReplaceFirst(with_marker, markers[k], r.repl1),
                  ReplaceFirst(without_marker, markers[k], r.repl2),
                  markers, foot_notes, k + 1,
                  IF k + 1 > Min(Len(markers), Len(foot_notes))
                  THEN Repl(<<>>, <<>>, "")
                  ELSE merge_repl(markers[k + 1], foot_notes[k + 1]))

merge_markers(page, markers, foot_notes) ==
  merge_from(page, page, markers, foot_notes, 1,
             IF Min(Len(markers), Len(foot_notes)) = 0
             THEN Repl(<<>>, <<>>, "")
             ELSE merge_repl(markers[1], foot_notes[1]))

merge_footnotes_per_page(page, foot_notes) ==
  merge_markers(page, Texts(page, FindAll(page, TagOpen, Newlines)),
                foot_notes)

MaxMergePieces == 3

MaxNotes == 2

MergePieces ==
  {<<"k">>, <<"<", "1", ",", "c1", ">">>, <<"<", "2", ",", "c2", ">">>,
   <<"<", "p", "1", "-", "2", ">">>}

NotePool ==
  {<<"<", "1", ",", "c1", ">", "g">>, <<"<", "2", ",", "c2", ">">>,
   <<"<", "1", ",", "c1", ">", "2", ",", "c2">>}

InitMerge ==
  /\ Idle
  /\ \E page \in TextsOf(MergePieces, MaxMergePieces),
        foot_notes \in UNION {[1..n -> NotePool] : n \in 0..MaxNotes} :
       call = [fn |-> "merge_footnotes_per_page", page |-> page,
               foot_notes |-> foot_notes]
  /\ pg_num = 0 /\ ret = <<>> /\ exc = "" /\ pc = "call"

\* one run of merge_footnotes_per_page, given its outcome
MergeTo(m) ==
  /\ pc = "call" /\ call.fn = "merge_footnotes_per_page"
  /\ ret' = IF m.exc = "" THEN <<m.with, m.without>> ELSE <<>>
  /\ exc' = m.exc
  /\ pc' = IF m.exc = "" THEN "returned" ELSE "raised"
  /\ IdleStill /\ UNCHANGED <<call, pg_num>>

MergeFootnotesPerPage ==
  MergeTo(merge_footnotes_per_page(call.page, call.foot_notes))

NextMerge == MergeFootnotesPerPage

SpecMerge == InitMerge /\ [][NextMerge]_vars

\* the text between the brackets of a tag at the head of s, and what
\* follows the tag
TagInner(s) == SubSeq(s, 2, FindFrom(s, <<">">>, 1) - 1)

AfterTag(s) == SubSeq(s, FindFrom(s, <<">">>, 1) + 1, Len(s))

\* gaps[1] repl[1] gaps[2] ... repl[n] gaps[n + 1], from the k-th gap on
RECURSIVE Interleave(_, _, _)
Interleave(gaps, repls, k) ==
  IF k > Len(repls) THEN gaps[k]
  ELSE gaps[k] \o repls[k] \o Interleave(gaps, repls, k + 1)

PageTokens(page) == Texts(page, FindAll(page, TagOpen, Newlines))

PageGaps(page) == Split(page, FindAll(page, TagOpen, Newlines))

IsBoundary(token) == MatchAt(token, PageOpen, 1)

\* the page has marker tokens only, one per footnote string
MarkersOnly(page, foot_notes) ==
  /\ Len(PageTokens(page)) = Len(foot_notes)
  /\ \A k \in 1..Len(foot_notes) : ~IsBoundary(PageTokens(page)[k])

NoteOnly(page, foot_notes) ==
  Interleave(PageGaps(page),
             [k \in 1..Len(foot_notes) |->
                <<"<">> \o AfterTag(foot_notes[k]) \o <<">">>], 1)

Combined(page, foot_notes) ==
  Interleave(PageGaps(page),
             [k \in 1..Len(foot_notes) |->
                <<"<">> \o TagInner(PageTokens(page)[k]) \o <<";">>
                  \o TagInner(foot_notes[k]) \o <<",">>
                  \o AfterTag(foot_notes[k]) \o <<">">>], 1)

\* C3: for a page of n marker tokens and n footnote strings,
\* merge_footnotes_per_page returns the page with the k-th token replaced by
\* <bodyIndex,bodyValue;footIndex,footValue,noteText> (with-marker) and by
\* <noteText> (note-only), all other text unchanged.
C3_MergeResult ==
  (/\ pc \in {"returned", "raised"}
   /\ call.fn = "merge_footnotes_per_page"
   /\ MarkersOnly(call.page, call.foot_notes))
  => /\ pc = "returned"
     /\ ret[1] = Combined(call.page, call.foot_notes)
     /\ ret[2] = NoteOnly(call.page, call.foot_notes)

\* out, from position o on, is the k-th gap of the page, then the k-th
\* token if it is a page-boundary token and any text if it is not, and so
\* on to the last gap, which ends out
RECURSIVE Keeps(_, _, _, _, _)
Keeps(out, o, gaps, tokens, k) ==
  /\ MatchAt(out, gaps[k], o)
  /\ IF k > Len(tokens) THEN o + Len(gaps[k]) = Len(out) + 1
     ELSE IF IsBoundary(tokens[k])
     THEN /\ MatchAt(out, tokens[k], o + Len(gaps[k]))
          /\ Keeps(out, o + Len(gaps[k]) + Len(tokens[k]), gaps, tokens,
                   k + 1)
     ELSE \E n \in 0..Len(out) :
            Keeps(out, o + Len(gaps[k]) + n, gaps, tokens, k + 1)

\* C6: every page-boundary token of the page handed to
\* merge_footnotes_per_page stands unchanged, between the same surrounding
\* texts, in the with-marker output and in the note-only output.
C6_BoundaryKept ==
  (pc = "returned" /\ call.fn = "merge_footnotes_per_page")
  => /\ Keeps(ret[1], 1, PageGaps(call.page), PageTokens(call.page), 1)
     /\ Keeps(ret[2], 1, PageGaps(call.page), PageTokens(call.page), 1)

\* a page-boundary token between two markers, each paired with a note and
\* replaced
C6_Witness ==
  /\ pc = "returned" /\ call.fn = "merge_footnotes_per_page"
  /\ Len(PageTokens(call.page)) = 3 /\ Len(call.foot_notes) = 2
  /\ IsBoundary(PageTokens(call.page)[2])
  /\ ~IsBoundary(PageTokens(call.page)[1])
  /\ ret[2] # call.page

----------------------------------------------------------------------------
(* The footnote reassembler: reformat_footnotes, demultiply_diffs and      *)
(* postprocess_footnotes, as reconstruct_footnote runs them.               *)

\* re.sub("(<+)", r"\n\1", text): a newline before every run of "<"
RECURSIVE break_tags(_, _)
break_tags(text, k) ==
  IF k > Len(text) THEN <<>>
  ELSE (IF text[k] = "<" /\ (k = 1 \/ text[k - 1] # "<")
        THEN <<"nl", "<">> ELSE <<text[k]>>) \o break_tags(text, k + 1)

\* The length of the first group of a pattern at the head of a line, less
\* its newline: "<", digits, "," for kind "digits", "<m" for kind "m"; 0
\* when the line does not start with it.
prefix_len(line, kind) ==
  IF kind = "m" THEN (IF MatchAt(line, <<"<", "m">>, 1) THEN 2 ELSE 0)
  ELSE IF Len(line) >= 3 /\ line[1] = "<" /\ IsDigit(line[2])
          /\ RunEnd(line, AsciiDigits \cup TibDigits, 2) < Len(line)
          /\ line[RunEnd(line, AsciiDigits \cup TibDigits, 2) + 1] = ","
  THEN RunEnd(line, AsciiDigits \cup TibDigits, 2) + 1
  ELSE 0

\* the line is the prefix, k glyphs of cls, ">" and at least one character
bundle_match(line, pl, k, cls) ==
  /\ pl # 0
  /\ pl + k + 2 <= Len(line)
  /\ \A j \in 1..k : line[pl + j] \in cls
  /\ line[pl + k + 1] = ">"

\* the replacement with the first glyph on every line
RECURSIVE expand_first(_, _, _, _)
expand_first(line, pl, k, j) ==
  IF j > k THEN <<>>
  ELSE <<"nl">> \o SubSeq(line, 1, pl) \o <<line[pl + 1]>>
         \o SubSeq(line, pl + k + 1, Len(line))
         \o expand_first(line, pl, k, j + 1)

\* the replacement: for each glyph, from the j-th on, the newline and the
\* prefix, the glyph, the suffix
RECURSIVE expand(_, _, _, _)
expand(line, pl, k, j) ==
  IF j > k THEN <<>>
  ELSE <<"nl">> \o SubSeq(line, 1, pl) \o <<line[pl + j]>>
         \o SubSeq(line, pl + k + 1, Len(line))
         \o expand(line, pl, k, j + 1)

\* re.sub of one pattern over the lines that follow a newline, from the
\* j-th on: a match starts at a newline and ends with its line
RECURSIVE sub_lines(_, _, _, _, _)
sub_lines(lines, j, kind, k, cls) ==
  IF j > Len(lines) THEN <<>>
  ELSE (IF bundle_match(lines[j], prefix_len(lines[j], kind), k, cls)
        THEN expand(lines[j], prefix_len(lines[j], kind), k, 1)
        ELSE <<"nl">> \o lines[j])
         \o sub_lines(lines, j + 1, kind, k, cls)

sub_pattern(text, kind, k, cls) ==
  SplitOn(text, "nl")[1] \o sub_lines(SplitOn(text, "nl"), 2, kind, k, cls)

\* [①-⑨]
CircleOneToNine == {"c1", "c2", "c3", "c4", "c5", "c6", "c7", "c8", "c9"}

demultiply_diffs(text) ==
  sub_pattern(
    sub_pattern(
      sub_pattern(
        sub_pattern(
          sub_pattern(text, "digits", 5, CircleRange),
          "m", 2, CircleOneToNine),
        "digits", 4, CircleRange),
      "digits", 3, CircleRange),
    "digits", 2, CircleRange)

reformat_footnotes(text) ==
  demultiply_diffs(break_tags(Without(text, {"nl"}), 1))

\* s.strip()
RECURSIVE Strip(_)
Strip(s) ==
  IF s = <<>> THEN s
  ELSE IF s[1] \in Spaces THEN Strip(Tail(s))
  ELSE IF s[Len(s)] \in Spaces THEN Strip(SubSeq(s, 1, Len(s) - 1))
  ELSE s

\* first_ref.translate(table): "<", "r" and ">" are deleted, a Tibetan
\* digit becomes its ASCII digit
RECURSIVE translate_ref(_)
translate_ref(s) ==
  IF s = <<>> THEN <<>>
  ELSE (IF Head(s) \in {"<", "r", ">"} THEN <<>>
        ELSE IF Head(s) \in TibDigits THEN <<tib_num(Head(s))>>
        ELSE <<Head(s)>>) \o translate_ref(Tail(s))

\* the value of a text of ASCII digits
RECURSIVE DecimalValue(_)
DecimalValue(s) ==
  IF s = <<>> THEN 0
  ELSE 10 * DecimalValue(SubSeq(s, 1, Len(s) - 1))
         + (CHOOSE d \in 0..9 : Digits[d + 1] = s[Len(s)])

\* int(s) of a translated reference: white space around an optional sign
\* and ASCII digits; anything else is a ValueError
int_of(s) ==
  IF s # <<>> /\ s[1] \in {"-", "+"}
  THEN IF Len(s) >= 2 /\ \A k \in 2..Len(s) : s[k] \in AsciiDigits
       THEN [exc |-> "",
             value |-> (IF s[1] = "-" THEN -1 ELSE 1) * DecimalValue(Tail(s))]
       ELSE [exc |-> "ValueError", value |-> 0]
  ELSE IF s # <<>> /\ \A k \in 1..Len(s) : s[k] \in AsciiDigits
  THEN [exc |-> "", value |-> DecimalValue(s)]
  ELSE [exc |-> "ValueError", value |-> 0]

\* re.search("<.+?>(.+?)", marker) on a line: a tag and a character after it
tag_then_text(marker) ==
  \E q \in 1..Len(marker), e \in 1..Len(marker) :
    marker[q] = "<" /\ e >= q + 2 /\ marker[e] = ">" /\ e < Len(marker)

\* the loop of lines 747-752 from the k-th stripped line on
RECURSIVE keep_notes(_, _)
keep_notes(marker_list, k) ==
  IF k > Len(marker_list) THEN <<>>
  ELSE (IF /\ marker_list[k] # <<>>
           /\ \/ tag_then_text(marker_list[k])
              \/ ~Contains(marker_list[k], <<"<">>)
        THEN <<marker_list[k]>> ELSE <<>>)
         \o keep_notes(marker_list, k + 1)

\* page.splitlines(), each line stripped; the empty line splitlines leaves
\* out at the end is one keep_notes drops
stripped_lines(page) ==
  [k \in 1..Len(SplitOn(page, "nl")) |-> Strip(SplitOn(page, "nl")[k])]

\* marker_l of one page: lines 740-752
page_notes(page) == keep_notes(stripped_lines(number_page(page)), 1)

\* every text re.split returns, the one before the first reference included
ref_pages_all(footnotes, ms) == Split(footnotes, ms)

\* re.split("<r.+?>", footnotes)[1:]
ref_pages(footnotes, ms) == Tail(Split(footnotes, ms))

\* the table footnote_result, given the page references, the pages and
\* int(first_ref.translate(table))
footnote_table(pages, start) ==
  IF start.exc # "" THEN [exc |-> start.exc, table |-> <<>>]
  ELSE [exc |-> "",
        table |-> [walker \in start.value..(start.value + Len(pages) - 1) |->
                     page_notes(pages[walker - start.value + 1])]]

postprocess_refs(footnotes, ms) ==
  IF ms = <<>> THEN [exc |-> "IndexError", table |-> <<>>]
  ELSE footnote_table(ref_pages(footnotes, ms),
                      int_of(Strip(translate_ref(Texts(footnotes, ms)[1]))))

postprocess_footnotes(footnotes) ==
  postprocess_refs(footnotes, FindAll(footnotes, RefOpen, Newlines))

MaxFootPieces == 3

Bundle(glyphs) == <<"<", "1", "2", ",">> \o glyphs \o <<">", "g">>

FootPieces ==
  {<<"<", "r", "t2", ">">>, <<"<", "r", "t1", "t2", ">">>, <<"k">>,
   <<"<", "1", "2", ",", "c1", "c2", ">">>, <<"<", "m", "c1", "c2", ">", "g">>,
   Bundle(<<"c1">>), Bundle(<<"c1", "c2">>), Bundle(<<"c1", "c2", "c3">>),
   Bundle(<<"c1", "c2", "c3", "c4">>),
   Bundle(<<"c1", "c2", "c3", "c4", "c5">>),
   Bundle(<<"c1", "c2", "c3", "c4", "c5", "c6">>)}

InitFoot ==
  /\ Idle
  /\ \E new_text \in TextsOf(FootPieces, MaxFootPieces) :
       call = [fn |-> "reconstruct_footnote", new_text |-> new_text]
  /\ pg_num = 0 /\ ret = <<>> /\ exc = "" /\ pc = "call"

ReformatFootnotes ==
  /\ pc = "call" /\ call.fn = "reconstruct_footnote"
  /\ ret' = reformat_footnotes(call.new_text)
  /\ pc' = "reformatted"
  /\ IdleStill /\ UNCHANGED <<call, pg_num, exc>>

\* postprocess_footnotes on the reformatted text, given its outcome
PostprocessTo(t) ==
  /\ pc = "reformatted" /\ call.fn = "reconstruct_footnote"
  /\ call' = [fn |-> "postprocess_footnotes", footnotes |-> ret]
  /\ ret' = t.table
  /\ exc' = t.exc
  /\ pc' = IF t.exc = "" THEN "returned" ELSE "raised"
  /\ IdleStill /\ UNCHANGED pg_num

PostprocessFootnotes == PostprocessTo(postprocess_footnotes(ret))

NextFoot == ReformatFootnotes \/ PostprocessFootnotes

SpecFoot == InitFoot /\ [][NextFoot]_vars

\* the lines of the footnote text as reformat_footnotes breaks it, before
\* it demultiplies them: the text up to the first tag, then one line a tag
LinesIn(text) == SplitOn(break_tags(Without(text, {"nl"}), 1), "nl")

\* the number of glyphs a line bundles: the line is "<", digits, ",", the
\* glyphs, ">" and a non-empty note; 0 when it is no such line
BundleSize(line) ==
  LET c == FindFrom(line, <<",">>, 1)
      g == FindFrom(line, <<">">>, 1)
  IN  IF /\ Len(line) >= 1 /\ line[1] = "<"
         /\ c >= 3 /\ \A k \in 2..(c - 1) : IsDigit(line[k])
         /\ g > c /\ \A k \in (c + 1)..(g - 1) : line[k] \in CircleRange
         /\ g < Len(line)
      THEN g - c - 1 ELSE 0

\* the lines a line of the footnote text becomes: one a glyph, each the
\* prefix, the glyph and the suffix, for a bundle of 2 to 5 glyphs
LinesFor(line) ==
  LET c == FindFrom(line, <<",">>, 1)
      g == FindFrom(line, <<">">>, 1)
  IN  IF BundleSize(line) \in 2..5
      THEN Concat([j \in 1..BundleSize(line) |->
                     <<"nl">> \o SubSeq(line, 1, c) \o <<line[c + j]>>
                       \o SubSeq(line, g, Len(line))])
      ELSE <<"nl">> \o line

\* the text lines is demultiplied into
Demultiplied(lines) ==
  lines[1] \o Concat([j \in 1..(Len(lines) - 1) |-> LinesFor(lines[j + 1])])

\* C4: reformat_footnotes turns every line "<digits,glyphs>note" that
\* bundles k glyphs, 2 <= k <= 5, into k lines, one a glyph in glyph order,
\* each the shared prefix, the glyph and the shared suffix; every other line
\* stays as it is. (Texts with the explicit "<m" form are left to its own
\* rule.)
C4_Demultiplied ==
  (/\ pc = "reformatted" /\ call.fn = "reconstruct_footnote"
   /\ ~Contains(call.new_text, <<"<", "m">>))
  => ret = Demultiplied(LinesIn(call.new_text))

\* a bundle of five glyphs and a bundle of three, after a page reference:
\* eight lines come of them
C4_Witness ==
  /\ pc = "reformatted"
  /\ call.new_text = <<"<", "r", "t2", ">">>
                       \o Bundle(<<"c1", "c2", "c3", "c4", "c5">>)
                       \o Bundle(<<"c1", "c2", "c3">>)
  /\ Len(SplitOn(ret, "nl")) = 10

RefsOf(footnotes) == Texts(footnotes, FindAll(footnotes, RefOpen, Newlines))

BlocksOf(footnotes) ==
  Tail(Split(footnotes, FindAll(footnotes, RefOpen, Newlines)))

TibetanDigits == <<"t0", "t1", "t2", "t3", "t4", "t5", "t6", "t7", "t8", "t9">>

\* the number a run of Tibetan digits writes
RECURSIVE NumeralValue(_)
NumeralValue(s) ==
  IF s = <<>> THEN 0
  ELSE 10 * NumeralValue(SubSeq(s, 1, Len(s) - 1))
         + (CHOOSE d \in 0..9 : TibetanDigits[d + 1] = s[Len(s)])

IsNumeralRef(ref) ==
  /\ Len(ref) >= 4
  /\ \A k \in 3..(Len(ref) - 1) : ref[k] \in TibDigits

\* the note of a stored line: what follows its tag, or the line itself
NoteOf(line) == IF line # <<>> /\ line[1] = "<" THEN AfterTag(line) ELSE line

\* the notes of the lines of a block, a bare tag and an empty line left out
RECURSIVE NotesOfBlock(_, _)
NotesOfBlock(lines, k) ==
  IF k > Len(lines) THEN <<>>
  ELSE (IF NoteOf(Strip(lines[k])) = <<>> THEN <<>>
        ELSE <<NoteOf(Strip(lines[k]))>>) \o NotesOfBlock(lines, k + 1)

\* the table has the keys start .. start + n - 1 for the n references, and
\* under the j-th the notes of the j-th block
KeyedFrom(table, start, refs, blocks) ==
  /\ DOMAIN table = start..(start + Len(refs) - 1)
  /\ \A j \in 1..Len(refs) :
       [k \in 1..Len(table[start + j - 1]) |-> NoteOf(table[start + j - 1][k])]
         = NotesOfBlock(SplitOn(blocks[j], "nl"), 1)

KeyedByRefs(table, refs, blocks) ==
  KeyedFrom(table, NumeralValue(SubSeq(refs[1], 3, Len(refs[1]) - 1)), refs,
            blocks)

\* the first reference, if there is one, is a Tibetan numeral
NumeralFirst(refs) == refs # <<>> /\ IsNumeralRef(refs[1])

CarriesIndex(line, k) == MatchAt(line, <<"<">> \o IntToStr(k) \o <<",">>, 1)

\* C12: in every footnote list of the table postprocess_footnotes returns,
\* the k-th string carries the index k.
C12_ParallelNumbering ==
  (pc = "returned" /\ call.fn = "postprocess_footnotes")
  => \A walker \in DOMAIN ret :
       \A k \in 1..Len(ret[walker]) : CarriesIndex(ret[walker][k], k)

----------------------------------------------------------------------------
(* get_preview_page, from the reassembled body and the footnote table on:  *)
(* get_page_num, the lookup of the page's footnotes, the merge.            *)

\* the end of the match of fr"<p{vol}-(\d+)>" at position p, 0 for none
page_num_end(body_text, p) ==
  IF /\ MatchAt(body_text, PageOpen \o vol_str \o <<"-">>, p)
     /\ p + Len(vol_str) + 3 <= Len(body_text)
     /\ IsDigit(body_text[p + Len(vol_str) + 3])
     /\ RunEnd(body_text, AsciiDigits \cup TibDigits, p + Len(vol_str) + 3)
          < Len(body_text)
     /\ body_text[RunEnd(body_text, AsciiDigits \cup TibDigits,
                         p + Len(vol_str) + 3) + 1] = ">"
  THEN RunEnd(body_text, AsciiDigits \cup TibDigits, p + Len(vol_str) + 3) + 1
  ELSE 0

\* re.search: the first position the pattern matches at, 0 for none
RECURSIVE page_num_search(_, _)
page_num_search(body_text, p) ==
  IF p > Len(body_text) THEN 0
  ELSE IF page_num_end(body_text, p) # 0 THEN p
  ELSE page_num_search(body_text, p + 1)

\* int() of a run of digits
digits_value(s) ==
  DecimalValue([k \in 1..Len(s) |->
                  IF s[k] \in TibDigits THEN tib_num(s[k]) ELSE s[k]])

\* get_page_num, given the position of the match: pg_pat is None when
\* there is none, and pg_pat.group raises
page_num_at(body_text, p) ==
  IF p = 0 THEN [exc |-> "AttributeError", value |-> 0]
  ELSE [exc |-> "",
        value |-> digits_value(SubSeq(body_text, p + Len(vol_str) + 3,
                                      page_num_end(body_text, p) - 1))]

get_page_num(body_text) == page_num_at(body_text, page_num_search(body_text, 1))

MaxPreviewPieces == 3

MaxPreviewNotes == 2

PreviewPieces ==
  {<<"k">>, <<"<", "c1", ">">>, <<"<", "p", "1", "-", "2", ">">>,
   <<"<", "p", "1", "-", "3", ">">>, <<"<", "p", "2", "-", "2", ">">>}

PreviewNotePieces ==
  {<<"<", "r", "t2", ">">>, <<"<", "r", "t3", ">">>, Bundle(<<"c1">>)}

\* the texts reconstruct_body returns
BodyResults ==
  {reformatting_body(text) : text \in TextsOf(PreviewPieces, MaxPreviewPieces)}

\* the tables reconstruct_footnote returns
FootnoteTables ==
  {postprocess_footnotes(reformat_footnotes(Concat(<<<<"<", "r", "t2", ">">>>>
                                                      \o ps))).table :
     ps \in UNION {[1..n -> PreviewNotePieces] : n \in 0..MaxPreviewNotes}}

InitPreview ==
  /\ Idle
  /\ \E body_result \in BodyResults, footnotes \in FootnoteTables :
       call = [fn |-> "get_preview_page", body_result |-> body_result,
               footnotes |-> footnotes]
  /\ pg_num = 0 /\ ret = <<>> /\ exc = "" /\ pc = "call"

\* line 909, given the outcome of get_page_num
PageNumTo(n) ==
  /\ pc = "call" /\ call.fn = "get_preview_page"
  /\ pg_num' = n.value
  /\ exc' = n.exc
  /\ pc' = IF n.exc = "" THEN "merge" ELSE "raised"
  /\ IdleStill /\ UNCHANGED <<call, ret>>

GetPageNum == PageNumTo(get_page_num(call.body_result))

\* footnotes[pg_num] of line 910 on a table without the key
MissingPage ==
  /\ pc = "merge" /\ call.fn = "get_preview_page"
  /\ pg_num \notin DOMAIN call.footnotes
  /\ exc' = "KeyError"
  /\ pc' = "raised"
  /\ IdleStill /\ UNCHANGED <<call, pg_num, ret>>

\* lines 910-911, given the outcome of merge_footnotes_per_page
PreviewTo(m) ==
  /\ ret' = IF m.exc = "" THEN m.without ELSE <<>>
  /\ exc' = m.exc
  /\ pc' = IF m.exc = "" THEN "returned" ELSE "raised"
  /\ IdleStill /\ UNCHANGED <<call, pg_num>>

MergePage ==
  /\ pc = "merge" /\ call.fn = "get_preview_page"
  /\ pg_num \in DOMAIN call.footnotes
  /\ PreviewTo(merge_footnotes_per_page(call.body_result,
                                        call.footnotes[pg_num]))

NextPreview == GetPageNum \/ MissingPage \/ MergePage

SpecPreview == InitPreview /\ [][NextPreview]_vars

\* the body has a page-boundary token of the volume: "<p", the volume, "-",
\* digits, ">"
HasBoundary(body_text) ==
  \E p \in 1..Len(body_text), e \in 1..Len(body_text) :
    /\ MatchAt(body_text, PageOpen \o vol_str \o <<"-">>, p)
    /\ e > p + Len(vol_str) + 3 /\ body_text[e] = ">"
    /\ \A k \in (p + Len(vol_str) + 3)..(e - 1) : IsDigit(body_text[k])

\* C7: when the reassembled body has no page-boundary token of the volume,
\* the page-number extraction of get_preview_page fails with the condition
\* PageNotFound.
C7_PageNotFound ==
  (/\ call.fn = "get_preview_page" /\ pc # "call"
   /\ ~HasBoundary(call.body_result))
  => pc = "raised" /\ exc = "PageNotFound"

\* C8: when the footnote table has no block for the page number of the
\* body, get_preview_page does not fail: it returns the merge of the body
\* with no notes.
C8_MissingBlock ==
  (/\ call.fn = "get_preview_page" /\ pc \in {"returned", "raised"}
   /\ HasBoundary(call.body_result)
   /\ pg_num \notin DOMAIN call.footnotes)
  => /\ pc = "returned"
     /\ ret = merge_footnotes_per_page(call.body_result, <<>>).without

----------------------------------------------------------------------------
(* filter_footnotes_diffs: the classifier of the footnote diffs. Its       *)
(* entries are triples [type, text, tag]; filtered_diffs is the variable   *)
(* result.                                                                 *)

\* re.search(r"\d{2}", diff_text)
two_digits(diff_text) ==
  \E k \in 1..(Len(diff_text) - 1) :
    IsDigit(diff_text[k]) /\ IsDigit(diff_text[k + 1])

\* lines 705-713, for an entry that passes the guard of line 704
footnote_note(filtered, diff, right_) ==
  IF "4" \in {diff.text[k] : k \in 1..Len(diff.text)}
  THEN IF right_ = <<>> THEN [filtered |-> filtered, exc |-> "UnboundLocalError"]
       ELSE IF two_digits(diff.text) \/ rm_noise(right_.text) = <<>>
       THEN [filtered |-> filtered, exc |-> ""]
       ELSE [filtered |->
               Append(filtered,
                      Entry(0, SelectSeq(diff.text,
                                         LAMBDA c : c \in {"4", "|", "nl"}),
                            "marker")),
             exc |-> ""]
  ELSE [filtered |-> Append(filtered, diff), exc |-> ""]

\* lines 703-713, given the left and the right context
footnote_target(filtered, diff, left, right_) ==
  IF left.tag # "marker" /\ left.tag # "pedurma-page"
  THEN footnote_note(filtered, diff, right_)
  ELSE [filtered |-> filtered, exc |-> ""]

MaxFootDiffs == 3

FootDiffPool ==
  {Entry(0, <<"k">>, ""), Entry(0, <<"sp">>, ""), Entry(-1, <<"g">>, ""),
   Entry(1, <<"c1">>, "marker"),
   Entry(1, <<"<", "p", "1", "-", "2", ">">>, "pedurma-page"),
   Entry(1, <<"<", "r", "t2", ">">>, "pg_ref"), Entry(1, <<"nga">>, ""),
   Entry(1, <<"4">>, ""), Entry(1, <<"1", "4">>, ""),
   Entry(1, <<"4", "|", "a", "nl">>, "")}

InitFootDiffs ==
  /\ \E diffs_list \in UNION {[1..n -> FootDiffPool] : n \in 1..MaxFootDiffs} :
       diffs = diffs_list
  /\ result = <<>> /\ i = 0
  /\ left_diff = Entry(0, <<>>, "") /\ right_diff = <<>> /\ called = ""
  /\ call = [fn |-> "filter_footnotes_diffs"]
  /\ pg_num = 0 /\ ret = <<>> /\ exc = "" /\ pc = "loop"

\* one pass of the loop on an entry that is not of type 1: lines 696-697
\* and 714-715
FootCopy ==
  /\ pc = "loop" /\ call.fn = "filter_footnotes_diffs" /\ i < Len(diffs)
  /\ At(diffs, i).type # 1
  /\ result' = Append(result, At(diffs, i))
  /\ i' = i + 1
  /\ UNCHANGED <<diffs, left_diff, right_diff, called, call, pg_num, ret, exc,
                 pc>>

\* one pass of the loop on an entry of type 1, given the outcome of lines
\* 703-713
FootTargetTo(t) ==
  /\ pc = "loop" /\ call.fn = "filter_footnotes_diffs" /\ i < Len(diffs)
  /\ At(diffs, i).type = 1
  /\ left_diff' = IF i > 0 THEN At(diffs, i - 1) ELSE left_diff
  /\ right_diff' = IF i < Len(diffs) - 1 THEN At(diffs, i + 1) ELSE right_diff
  /\ result' = t.filtered
  /\ exc' = t.exc
  /\ pc' = IF t.exc = "" THEN "loop" ELSE "raised"
  /\ i' = i + 1
  /\ UNCHANGED <<diffs, called, call, pg_num, ret>>

FootTarget ==
  FootTargetTo(footnote_target(
    result, At(diffs, i), IF i > 0 THEN At(diffs, i - 1) ELSE left_diff,
    IF i < Len(diffs) - 1 THEN At(diffs, i + 1) ELSE right_diff))

\* line 717
FootReturn ==
  /\ pc = "loop" /\ call.fn = "filter_footnotes_diffs" /\ i = Len(diffs)
  /\ ret' = result
  /\ pc' = "returned"
  /\ UNCHANGED <<diffs, result, i, left_diff, right_diff, called, call,
                 pg_num, exc>>

NextFootDiffs == FootCopy \/ FootTarget \/ FootReturn

SpecFootDiffs == InitFootDiffs /\ [][NextFootDiffs]_vars

\* a pass of the loop on an entry of type 1 whose left neighbour is tagged
\* marker or pedurma-page
GuardedPass ==
  /\ pc = "loop" /\ call.fn = "filter_footnotes_diffs" /\ i' = i + 1
  /\ At(diffs, i).type = 1
  /\ i > 0 /\ At(diffs, i - 1).tag \in {"marker", "pedurma-page"}

\* C13: filter_footnotes_diffs appends, with its text and its tag, an entry
\* of type 1 whose left neighbour is tagged marker or pedurma-page.
C13_GuardedKept ==
  [][GuardedPass => result' = Append(result, At(diffs, i))]_vars

----------------------------------------------------------------------------
(* The noise strippers rm_marker and rm_noise.                             *)

\* [a-zA-Z]
Latin ==
  {"a", "b", "c", "d", "e", "f", "g", "h", "i", "j", "k", "l", "m", "n", "o",
   "p", "q", "r", "s", "t", "u", "v", "w", "x", "y", "z", "A", "B", "C", "D",
   "E", "F", "G", "H", "I", "J", "K", "L", "M", "N", "O", "P", "Q", "R", "S",
   "T", "U", "V", "W", "X", "Y", "Z"}

\* the patterns of rm_marker, in order: a set is a pattern that matches one
\* character of the set (a run of them for " +"), a sequence is a literal
rm_marker_patterns ==
  <<{"copy"}, {"reg"}, {"ldq"}, {"bullet"}, TibDigits, Latin, {")"}, {"("},
    {"sp"}, {"@"}, {"tseg"}, <<"shad", "sp", "shad">>,
    AsciiDigits \cup TibDigits, {"shad"}, <<"yig1", "yig2">>>>

\* one pass of the loop of rm_marker: the pattern is searched in the
\* ARGUMENT diff and substituted in the running result
rm_marker_sub(diff, result_, k) ==
  IF k \in {12, 15}
  THEN IF Contains(diff, rm_marker_patterns[k])
       THEN ReplaceAll(result_, rm_marker_patterns[k], <<>>) ELSE result_
  ELSE IF FirstIn(diff, rm_marker_patterns[k], 1) # 0
       THEN Without(result_, rm_marker_patterns[k]) ELSE result_

RECURSIVE rm_marker_from(_, _, _)
rm_marker_from(diff, result_, k) ==
  IF k > Len(rm_marker_patterns) THEN result_
  ELSE rm_marker_from(diff, rm_marker_sub(diff, result_, k), k + 1)

rm_marker(diff) == rm_marker_from(diff, diff, 1)

MaxStripPieces == 3

StripPieces ==
  {<<"sp">>, <<"sp", "sp">>, <<"nl">>, <<"tseg">>, <<"tseg", "tseg">>,
   <<"shad">>, <<"yig1">>, <<"yig2">>, <<"t1">>, <<"a">>, <<"nga">>}

InitStrip ==
  /\ Idle
  /\ \E fn \in {"rm_marker", "rm_noise"},
        diff \in TextsOf(StripPieces, MaxStripPieces) :
       call = [fn |-> fn, diff |-> diff]
  /\ pg_num = 0 /\ ret = <<>> /\ exc = "" /\ pc = "call"

\* rm_marker(diff)
RmMarker ==
  /\ pc = "call" /\ call.fn = "rm_marker"
  /\ ret' = rm_marker(call.diff)
  /\ pc' = "returned"
  /\ IdleStill /\ UNCHANGED <<call, pg_num, exc>>

\* rm_marker applied to the text it returned
RmMarkerAgain ==
  /\ pc = "returned" /\ call.fn = "rm_marker"
  /\ call' = [fn |-> "rm_marker", diff |-> ret]
  /\ ret' = rm_marker(ret)
  /\ pc' = "again"
  /\ IdleStill /\ UNCHANGED <<pg_num, exc>>

\* rm_noise(diff)
RmNoise ==
  /\ pc = "call" /\ call.fn = "rm_noise"
  /\ ret' = rm_noise(call.diff)
  /\ pc' = "returned"
  /\ IdleStill /\ UNCHANGED <<call, pg_num, exc>>

NextStrip == RmMarker \/ RmMarkerAgain \/ RmNoise

SpecStrip == InitStrip /\ [][NextStrip]_vars

\* C11: rm_marker applied to the text it returned gives that text back:
\* rm_marker(rm_marker(t)) = rm_marker(t).
C11_Idempotent ==
  (pc = "again" /\ call.fn = "rm_marker") => ret = call.diff

\* C15: the text rm_noise returns is its argument without its newlines,
\* spaces and syllable separators.
C15_NoiseStripped ==
  (pc = "returned" /\ call.fn = "rm_noise")
  => ret = Without(call.diff, {"nl", "sp", "tseg"})

=============================================================================
